---- MODULE Spec2Model ----
(***************************************************************************)
(* generate_parser.py: grammar / parser drift detection.                   *)
(*                                                                         *)
(* A character is a one-character string, a text is a sequence of          *)
(* characters.  The regular expressions of the program are modelled by     *)
(* scanners that follow Python's re semantics (leftmost match, greedy or   *)
(* non-greedy quantifiers, non-overlapping substitution).                  *)
(*                                                                         *)
(* Four specifications share the variables:                                *)
(*   SpecCase     to_snake_case and the PascalCase conversion of main      *)
(*   SpecGrammar  parse_grammar on bounded grammar texts with comments     *)
(*   SpecRules    parse_grammar on bounded comment-free grammar texts      *)
(*   Spec         the driver main()                                        *)
(***************************************************************************)
EXTENDS Naturals, Sequences, FiniteSets, TLC

VARIABLES
    pc,                      \* position of the running function
    name,                    \* to_snake_case: its argument
    snake,                   \* to_snake_case: its result
    node_type,               \* main: node_type computed from a rule name
    files,                   \* what open() finds for each of the three paths
    grammar_content,         \* text read from the grammar file
    stripped,                \* parse_grammar: grammar_content after the two re.sub
    tokens,                  \* parse_grammar: token set
    rules,                   \* parse_grammar: rule set
    header_content,          \* analyze_cpp_files: text of include/Parser.h
    source_content,          \* analyze_cpp_files: text of src/Parser.cpp
    declared_methods,
    implemented_methods,
    missing_declarations,
    missing_implementations,
    opened,                  \* the files opened so far, in order
    out                      \* the lines printed so far

vars == <<pc, name, snake, node_type, files, grammar_content, stripped,
          tokens, rules, header_content, source_content, declared_methods,
          implemented_methods, missing_declarations, missing_implementations,
          opened, out>>

caseVars == <<name, snake, node_type>>
grammarVars == <<grammar_content, stripped, tokens, rules>>
driverVars == <<files, header_content, source_content, declared_methods,
                implemented_methods, missing_declarations,
                missing_implementations, opened, out>>

(***************************************************************************)
(* Characters                                                              *)
(***************************************************************************)
NL == "\n"

Upper == {"A", "B", "C"}
Lower == {"a", "b", "c"}
Digit == {"0"}
Space == {" ", NL}

\* The characters of the model in code point order (Python compares str by
\* code point).
CodePointOrder ==
    <<NL, " ", "*", "/", "0", ":", ";", "A", "B", "C", "_", "a", "b", "c">>

Ord(c) == CHOOSE i \in 1..Len(CodePointOrder) : CodePointOrder[i] = c

ToLower(c) ==
    CASE c = "A" -> "a" [] c = "B" -> "b" [] c = "C" -> "c" [] OTHER -> c

ToUpper(c) ==
    CASE c = "a" -> "A" [] c = "b" -> "B" [] c = "c" -> "C" [] OTHER -> c

\* str.lower()
LowerStr(s) == [k \in 1..Len(s) |-> ToLower(s[k])]

\* The last index of the longest run of characters of class cls that starts
\* at index i of s (i - 1 when the run is empty): a greedy cls*.
RECURSIVE RunEnd(_, _, _)
RunEnd(s, i, cls) ==
    IF i <= Len(s) /\ s[i] \in cls THEN RunEnd(s, i + 1, cls) ELSE i - 1

\* Whether text p occurs in s at index i.
At(s, i, p) ==
    /\ i >= 1
    /\ i + Len(p) - 1 <= Len(s)
    /\ \A k \in 1..Len(p) : s[i + k - 1] = p[k]

\* All texts made of at most n pieces of the set pieces.
RECURSIVE Texts(_, _)
Texts(pieces, n) ==
    IF n = 0 THEN {<<>>}
    ELSE LET shorter == Texts(pieces, n - 1)
         IN shorter \cup {t \o p : t \in shorter, p \in pieces}

(***************************************************************************)
(* to_snake_case                                                           *)
(***************************************************************************)
\* re.sub('(.)([A-Z][a-z]+)', r'\1_\2', s), scanning from index i.
RECURSIVE SubCapitalizedWord(_, _)
SubCapitalizedWord(s, i) ==
    IF i > Len(s) THEN <<>>
    ELSE IF /\ i + 2 <= Len(s)
            /\ s[i] # NL
            /\ s[i + 1] \in Upper
            /\ s[i + 2] \in Lower
         THEN LET e == RunEnd(s, i + 2, Lower)
              IN <<s[i], "_">> \o SubSeq(s, i + 1, e)
                     \o SubCapitalizedWord(s, e + 1)
         ELSE <<s[i]>> \o SubCapitalizedWord(s, i + 1)

\* re.sub('([a-z0-9])([A-Z])', r'\1_\2', s), scanning from index i.
RECURSIVE SubLowerUpper(_, _)
SubLowerUpper(s, i) ==
    IF i > Len(s) THEN <<>>
    ELSE IF /\ i + 1 <= Len(s)
            /\ s[i] \in Lower \cup Digit
            /\ s[i + 1] \in Upper
         THEN <<s[i], "_", s[i + 1]>> \o SubLowerUpper(s, i + 2)
         ELSE <<s[i]>> \o SubLowerUpper(s, i + 1)

\* to_snake_case without its first substitution
to_snake_case_one_pass(n) == LowerStr(SubLowerUpper(n, 1))

to_snake_case(n) ==
    LET s1 == SubCapitalizedWord(n, 1)
    IN LowerStr(SubLowerUpper(s1, 1))

(***************************************************************************)
(* The PascalCase conversion of main: ''.join(word.capitalize() for word   *)
(* in rule.split('_'))                                                     *)
(***************************************************************************)
\* str.split('_'): the segments of s between underscores, empty ones kept.
RECURSIVE SplitFrom(_, _, _)
SplitFrom(s, i, cur) ==
    IF i > Len(s) THEN <<cur>>
    ELSE IF s[i] = "_" THEN <<cur>> \o SplitFrom(s, i + 1, <<>>)
         ELSE SplitFrom(s, i + 1, Append(cur, s[i]))

Split(s) == SplitFrom(s, 1, <<>>)

\* str.lower() in the place of str.capitalize()
CapitalizeNoUpper(w) == LowerStr(w)

\* str.capitalize(): the first character upper-cased, the rest lower-cased.
Capitalize(w) ==
    IF w = <<>> THEN <<>> ELSE <<ToUpper(w[1])>> \o LowerStr(Tail(w))

RECURSIVE Join(_)
Join(ws) == IF ws = <<>> THEN <<>> ELSE Head(ws) \o Join(Tail(ws))

ToPascalCase(rule) ==
    LET ws == Split(rule)
    IN Join([k \in 1..Len(ws) |-> Capitalize(ws[k])])

(***************************************************************************)
(* parse_grammar                                                           *)
(***************************************************************************)
AnyChar == {CodePointOrder[i] : i \in 1..Len(CodePointOrder)}
NotNL == AnyChar \ {NL}
IdentChars == Lower \cup Upper \cup {"_"}
TokenChars == Upper \cup {"_"}

\* re.sub(r'//.*', '', s), scanning from index i: '.' stops at a newline.
RECURSIVE SubLineComments(_, _)
SubLineComments(s, i) ==
    IF i > Len(s) THEN <<>>
    ELSE IF At(s, i, <<"/", "/">>)
         THEN SubLineComments(s, RunEnd(s, i + 2, NotNL) + 1)
         ELSE <<s[i]>> \o SubLineComments(s, i + 1)

\* The index of the first '*/' of s at or after index j, 0 when there is none.
RECURSIVE FindClose(_, _)
FindClose(s, j) ==
    IF j + 1 > Len(s) THEN 0
    ELSE IF At(s, j, <<"*", "/">>) THEN j ELSE FindClose(s, j + 1)

\* re.sub(r'/\*.*?\*/', '', s, flags=re.DOTALL), scanning from index i: a
\* '/*' with no later '*/' does not match and is left in place.
RECURSIVE SubBlockComments(_, _)
SubBlockComments(s, i) ==
    IF i > Len(s) THEN <<>>
    ELSE IF At(s, i, <<"/", "*">>) /\ FindClose(s, i + 2) # 0
         THEN SubBlockComments(s, FindClose(s, i + 2) + 2)
         ELSE <<s[i]>> \o SubBlockComments(s, i + 1)

RemoveComments(s) == SubBlockComments(SubLineComments(s, 1), 1)

\* '^' under re.MULTILINE
LineStart(s, p) == p = 1 \/ s[p - 1] = NL

\* rule_pattern without the \s* between the name and the colon
RECURSIVE RuleMatchesColonAdjacent(_, _)
RuleMatchesColonAdjacent(s, p) ==
    IF p > Len(s) THEN {}
    ELSE LET j == RunEnd(s, p, Space) + 1
             k == RunEnd(s, j + 1, IdentChars)
             m == k + 1
         IN IF /\ LineStart(s, p)
               /\ j <= Len(s) /\ s[j] \in Lower
               /\ m <= Len(s) /\ s[m] = ":"
            THEN {SubSeq(s, j, k)} \cup RuleMatchesColonAdjacent(s, m + 1)
            ELSE RuleMatchesColonAdjacent(s, p + 1)

\* rule_pattern.finditer(s) from index p, r'^\s*([a-z][a-zA-Z_]*)\s*:' with
\* re.MULTILINE: the set of group(1) of the matches.
RECURSIVE RuleMatches(_, _)
RuleMatches(s, p) ==
    IF p > Len(s) THEN {}
    ELSE LET j == RunEnd(s, p, Space) + 1
             k == RunEnd(s, j + 1, IdentChars)
             m == RunEnd(s, k + 1, Space) + 1
         IN IF /\ LineStart(s, p)
               /\ j <= Len(s) /\ s[j] \in Lower
               /\ m <= Len(s) /\ s[m] = ":"
            THEN {SubSeq(s, j, k)} \cup RuleMatches(s, m + 1)
            ELSE RuleMatches(s, p + 1)

\* token_pattern.finditer(s) from index p, r'^\s*([A-Z_]+)\s*:' with
\* re.MULTILINE: the set of group(1) of the matches.
RECURSIVE TokenMatches(_, _)
TokenMatches(s, p) ==
    IF p > Len(s) THEN {}
    ELSE LET j == RunEnd(s, p, Space) + 1
             k == RunEnd(s, j, TokenChars)
             m == RunEnd(s, k + 1, Space) + 1
         IN IF /\ LineStart(s, p)
               /\ k >= j
               /\ m <= Len(s) /\ s[m] = ":"
            THEN {SubSeq(s, j, k)} \cup TokenMatches(s, m + 1)
            ELSE TokenMatches(s, p + 1)

RulesOf(s) == {to_snake_case(g) : g \in RuleMatches(s, 1)}
TokensOf(s) == TokenMatches(s, 1)

\* Bounds of SpecGrammar
MaxPieces == 6

\* The pieces a grammar text of SpecGrammar is made of: the comment markers,
\* a line break, a lowercase and an uppercase letter and the colon.
GrammarPieces ==
    {<<"/", "/">>, <<"/", "*">>, <<"*", "/">>, <<NL>>, <<"a">>, <<"B">>, <<":">>}

NoDriver ==
    /\ files = <<>>
    /\ header_content = <<>>
    /\ source_content = <<>>
    /\ declared_methods = {}
    /\ implemented_methods = {}
    /\ missing_declarations = {}
    /\ missing_implementations = {}
    /\ opened = <<>>
    /\ out = <<>>

NoCase == name = <<>> /\ snake = <<>> /\ node_type = <<>>

InitGrammar ==
    /\ pc = "remove_comments"
    /\ grammar_content \in Texts(GrammarPieces, MaxPieces)
    /\ stripped = <<>>
    /\ tokens = {}
    /\ rules = {}
    /\ NoCase
    /\ NoDriver

\* parse_grammar, lines 12-13
RemoveCommentsStep ==
    /\ pc = "remove_comments"
    /\ stripped' = RemoveComments(grammar_content)
    /\ pc' = "rules"
    /\ UNCHANGED <<grammar_content, tokens, rules, caseVars, driverVars>>

\* parse_grammar, lines 19-21
ExtractRules ==
    /\ pc = "rules"
    /\ rules' = RulesOf(stripped)
    /\ pc' = "tokens"
    /\ UNCHANGED <<grammar_content, stripped, tokens, caseVars, driverVars>>

\* parse_grammar, lines 24-28
ExtractTokens ==
    /\ pc = "tokens"
    /\ tokens' = TokensOf(stripped)
    /\ pc' = "parsed"
    /\ UNCHANGED <<grammar_content, stripped, rules, caseVars, driverVars>>

NextGrammar == RemoveCommentsStep \/ ExtractRules \/ ExtractTokens

SpecGrammar == InitGrammar /\ [][NextGrammar]_vars

\* Bounds of SpecRules
MaxChars == 5

\* The characters a grammar text of SpecRules is made of.
RulePieces ==
    {<<" ">>, <<NL>>, <<"a">>, <<"B">>, <<"_">>, <<":">>, <<";">>}

InitRules ==
    /\ pc = "remove_comments"
    /\ grammar_content \in Texts(RulePieces, MaxChars)
    /\ stripped = <<>>
    /\ tokens = {}
    /\ rules = {}
    /\ NoCase
    /\ NoDriver

SpecRules == InitRules /\ [][NextGrammar]_vars

(***************************************************************************)
(* Comments as a lexer reads them, left to right: '//' opens a line        *)
(* comment that ends before the line break, '/*' opens a block comment     *)
(* that ends with the first following '*/'; a marker inside a comment      *)
(* opens nothing.                                                          *)
(***************************************************************************)
\* The texts of the line comments and of the closed block comments of s,
\* read from index i.
RECURSIVE CommentBodies(_, _)
CommentBodies(s, i) ==
    IF i > Len(s) THEN {}
    ELSE IF At(s, i, <<"/", "/">>)
         THEN LET e == RunEnd(s, i + 2, NotNL)
              IN {SubSeq(s, i + 2, e)} \cup CommentBodies(s, e + 1)
         ELSE IF At(s, i, <<"/", "*">>) /\ FindClose(s, i + 2) # 0
              THEN LET j == FindClose(s, i + 2)
                   IN {SubSeq(s, i + 2, j - 1)} \cup CommentBodies(s, j + 2)
              ELSE CommentBodies(s, i + 1)

\* The index of the '/*' of s, read from index i, that no '*/' closes
\* (0 when every block comment is closed).
RECURSIVE UnterminatedAt(_, _)
UnterminatedAt(s, i) ==
    IF i > Len(s) THEN 0
    ELSE IF At(s, i, <<"/", "/">>)
         THEN UnterminatedAt(s, RunEnd(s, i + 2, NotNL) + 1)
         ELSE IF At(s, i, <<"/", "*">>)
              THEN IF FindClose(s, i + 2) = 0 THEN i
                   ELSE UnterminatedAt(s, FindClose(s, i + 2) + 2)
              ELSE UnterminatedAt(s, i + 1)

\* The text of s outside its comments, read from index i.  toEnd says what
\* an unclosed '/*' is: a comment that runs to the end of the input, or
\* plain text.
RECURSIVE OutsideComments(_, _, _)
OutsideComments(s, i, toEnd) ==
    IF i > Len(s) THEN <<>>
    ELSE IF At(s, i, <<"/", "/">>)
         THEN OutsideComments(s, RunEnd(s, i + 2, NotNL) + 1, toEnd)
         ELSE IF At(s, i, <<"/", "*">>) /\ FindClose(s, i + 2) # 0
              THEN OutsideComments(s, FindClose(s, i + 2) + 2, toEnd)
              ELSE IF At(s, i, <<"/", "*">>) /\ toEnd
                   THEN <<>>
                   ELSE <<s[i]>> \o OutsideComments(s, i + 1, toEnd)

\* The rule and token names defined inside a comment of s.
CommentedRules(s) == UNION {RulesOf(b) : b \in CommentBodies(s, 1)}
CommentedTokens(s) == UNION {TokensOf(b) : b \in CommentBodies(s, 1)}

\* C1 (as claimed): a rule or token whose definition lies inside a line
\* comment or a closed block comment is not in the returned sets, unless the
\* same name is also defined outside every comment.
CommentImmunity ==
    pc = "parsed" =>
        LET outside == OutsideComments(grammar_content, 1, FALSE)
        IN /\ \A n \in CommentedRules(grammar_content) \ RulesOf(outside) :
                  n \notin rules
           /\ \A t \in CommentedTokens(grammar_content) \ TokensOf(outside) :
                  t \notin tokens

\* C4 (as claimed): after a '/*' that nothing closes the rest of the input is
\* comment, so no rule or token defined there (and nowhere before it outside
\* a comment) is in the returned sets.
UnterminatedCommentToEnd ==
    (pc = "parsed" /\ UnterminatedAt(grammar_content, 1) # 0) =>
        LET u == UnterminatedAt(grammar_content, 1)
            tail == SubSeq(grammar_content, u + 2, Len(grammar_content))
            outside == OutsideComments(grammar_content, 1, TRUE)
        IN /\ \A n \in RulesOf(tail) \ RulesOf(outside) : n \notin rules
           /\ \A t \in TokensOf(tail) \ TokensOf(outside) : t \notin tokens

(***************************************************************************)
(* Rule recognition                                                        *)
(***************************************************************************)
\* The identifiers of s that start with a lowercase letter, are made of
\* letters and underscores, stand at the start of a line after characters
\* of indent only, and are followed by a colon after characters of gap only.
RuleIdents(s, indent, gap) ==
    {SubSeq(s, jk[1], jk[2]) : jk \in
        {x \in (1..Len(s)) \X (1..Len(s)) :
            /\ x[1] <= x[2]
            /\ s[x[1]] \in Lower
            /\ \A q \in x[1]..x[2] : s[q] \in IdentChars
            /\ \E p \in 1..x[1] :
                  LineStart(s, p) /\ \A q \in p..(x[1] - 1) : s[q] \in indent
            /\ \E m \in (x[2] + 1)..Len(s) :
                  s[m] = ":" /\ \A q \in (x[2] + 1)..(m - 1) : s[q] \in gap}}

\* C8 (as claimed): n is a rule iff n is the snake_case of an identifier that
\* starts a line of the stripped text after same-line indentation and has the
\* colon right behind it.
RuleIffColonAdjacent ==
    pc = "parsed" =>
        rules = {to_snake_case(x) : x \in RuleIdents(stripped, Space \ {NL}, {})}

\* C8 (amended): n is a rule iff n is the snake_case of an identifier that
\* starts a line of the stripped text after same-line indentation and is
\* followed by the colon after optional white space, line breaks included.
RuleIffColonAfterSpace ==
    pc = "parsed" =>
        rules = {to_snake_case(x) : x \in RuleIdents(stripped, Space \ {NL}, Space)}

\* C8 witness: a rule was recognized whose colon is not right behind its name,
\* and one whose name is only preceded by a blank line.
RuleWithDetachedColon ==
    /\ pc = "parsed"
    /\ \E x \in RuleIdents(stripped, Space \ {NL}, Space) :
          /\ x \notin RuleIdents(stripped, Space \ {NL}, {})
          /\ to_snake_case(x) \in rules
          /\ to_snake_case(x) # x
    /\ Len(stripped) >= 2 /\ stripped[1] = NL /\ stripped[2] \in Lower

(***************************************************************************)
(* SpecCase: to_snake_case and the node type of a rule                     *)
(***************************************************************************)
MaxIdentLen == 5

IdentPieces == {<<"a">>, <<"b">>, <<"A">>, <<"B">>, <<"_">>, <<"0">>}

NoGrammar ==
    grammar_content = <<>> /\ stripped = <<>> /\ tokens = {} /\ rules = {}

InitCase ==
    /\ pc = "to_snake_case"
    /\ name \in Texts(IdentPieces, MaxIdentLen)
    /\ snake = <<>>
    /\ node_type = <<>>
    /\ NoGrammar
    /\ NoDriver

\* to_snake_case(name), lines 6-7
ToSnakeCase ==
    /\ pc = "to_snake_case"
    /\ snake' = to_snake_case(name)
    /\ pc' = "node_type"
    /\ UNCHANGED <<name, node_type, grammarVars, driverVars>>

\* main, line 86 (and 93): the node type of the rule
MakeNodeType ==
    /\ pc = "node_type"
    /\ node_type' = ToPascalCase(snake)
    /\ pc' = "converted"
    /\ UNCHANGED <<name, snake, grammarVars, driverVars>>

NextCase == ToSnakeCase \/ MakeNodeType

SpecCase == InitCase /\ [][NextCase]_vars

\* An identifier of simple words in camelCase or PascalCase: letters only,
\* every capital followed by a lowercase letter.
SimpleWords(x) ==
    /\ x # <<>>
    /\ \A k \in 1..Len(x) : x[k] \in Lower \cup Upper
    /\ \A k \in 1..Len(x) :
          x[k] \in Upper => (k < Len(x) /\ x[k + 1] \in Lower)

\* C5 (as claimed): on simple identifiers
\* toPascalCase(to_snake_case(x)) = toPascalCase(x).
RoundTripPascalOfInput ==
    (pc = "converted" /\ SimpleWords(name)) => node_type = ToPascalCase(name)

\* C5 (amended): on simple identifiers toPascalCase(to_snake_case(x)) is x
\* with its first letter upper-cased and the other letters kept.
RoundTripUpperFirst ==
    (pc = "converted" /\ SimpleWords(name)) =>
        node_type = <<ToUpper(name[1])>> \o Tail(name)

\* C5 witness: a camelCase identifier of two words or more was converted.
RoundTripTwoWords ==
    /\ pc = "converted"
    /\ SimpleWords(name)
    /\ name[1] \in Lower
    /\ \E k \in 1..Len(snake) : snake[k] = "_"

\* lowercase word, two or more capitals, lowercase letters
AcronymShape(x) ==
    LET i == RunEnd(x, 1, Lower)
        j == RunEnd(x, i + 1, Upper)
        e == RunEnd(x, j + 1, Lower)
    IN i >= 1 /\ j >= i + 2 /\ e >= j + 1 /\ e = Len(x)

\* C7: for lowercase word + run of capitals + lowercase letters the result is
\* lower-case with one underscore before the first capital of the run and one
\* before its last capital, and nowhere else.
AcronymBoundary ==
    (pc = "converted" /\ AcronymShape(name)) =>
        LET i == RunEnd(name, 1, Lower)
            j == RunEnd(name, i + 1, Upper)
        IN snake = SubSeq(name, 1, i) \o <<"_">>
                     \o LowerStr(SubSeq(name, i + 1, j - 1)) \o <<"_">>
                     \o LowerStr(SubSeq(name, j, Len(name)))

\* C7 witness: an identifier with a run of three capitals was converted.
AcronymOfThree ==
    /\ pc = "converted"
    /\ AcronymShape(name)
    /\ RunEnd(name, RunEnd(name, 1, Lower) + 1, Upper)
         >= RunEnd(name, 1, Lower) + 3

(***************************************************************************)
(* analyze_cpp_files                                                       *)
(*                                                                         *)
(* The header and the source are read as sequences of lines.  A line is    *)
(* either one the pattern of its file matches, with the method name the    *)
(* pattern captures, or any other line.                                    *)
(***************************************************************************)
Range(f) == {f[k] : k \in DOMAIN f}

\* re.findall(r"std::unique_ptr<\w+>\s+([a-z_]+)\(.*\)", header_content)
\* and re.findall(r"Parser::([a-z_]+)\(.*\)", source_content): the captured
\* names of the matching lines, in order.
RECURSIVE FindAll(_)
FindAll(content) ==
    IF content = <<>> THEN <<>>
    ELSE IF Head(content).matches
         THEN <<Head(content).method>> \o FindAll(Tail(content))
         ELSE FindAll(Tail(content))

(***************************************************************************)
(* main                                                                    *)
(***************************************************************************)
GrammarPath == "grammar/Zephyr.g4"
HeaderPath == "include/Parser.h"
SourcePath == "src/Parser.cpp"
Paths == {GrammarPath, HeaderPath, SourcePath}

\* What open(path, "r") does: it returns the file, raises FileNotFoundError,
\* or raises another OSError (PermissionError, IsADirectoryError).
OpenOutcomes == {"readable", "missing", "unreadable"}

\* Python's str comparison: by code point, a proper prefix first.
LexLess(a, b) ==
    \E k \in 1..(Len(a) + 1) :
        /\ k <= Len(b) + 1
        /\ \A q \in 1..(k - 1) : a[q] = b[q]
        /\ \/ k > Len(a) /\ k <= Len(b)
           \/ k <= Len(a) /\ k <= Len(b) /\ Ord(a[k]) < Ord(b[k])

\* A list of the set in no particular order (the greatest name first)
RECURSIVE Unsorted(_)
Unsorted(S) ==
    IF S = {} THEN <<>>
    ELSE LET m == CHOOSE x \in S : \A y \in S \ {x} : LexLess(y, x)
         IN <<m>> \o Unsorted(S \ {m})

\* sorted(list(S))
RECURSIVE Sorted(_)
Sorted(S) ==
    IF S = {} THEN <<>>
    ELSE LET m == CHOOSE x \in S : \A y \in S \ {x} : LexLess(x, y)
         IN <<m>> \o Sorted(S \ {m})

\* The difference taken the wrong way round
MissingFromSwapped(grammar_rules, methods) == methods \ grammar_rules

\* lines 71-72: grammar_rules - declared_methods, grammar_rules - implemented_methods
MissingFrom(grammar_rules, methods) == grammar_rules \ methods

\* 'or' in the place of 'and'
InSyncEither(md, mi) == md = {} \/ mi = {}

\* line 74: not missing_declarations and not missing_implementations
InSync(md, mi) == md = {} /\ mi = {}

\* One printed line.
Line(kind, nt, rule) == [kind |-> kind, node_type |-> nt, rule |-> rule]
Plain(kind) == Line(kind, <<>>, <<>>)

\* lines 84-87: one declaration stub for each rule of the list
DeclarationStubs(rs) ==
    [k \in 1..Len(rs) |-> Line("declaration_stub", ToPascalCase(rs[k]), rs[k])]

\* lines 92-99: one implementation stub (four prints) for each rule of the list
RECURSIVE ImplementationStubs(_)
ImplementationStubs(rs) ==
    IF rs = <<>> THEN <<>>
    ELSE << Line("implementation_stub", ToPascalCase(Head(rs)), Head(rs)),
            Line("todo", <<>>, Head(rs)),
            Plain("return_nullptr"),
            Plain("closing_brace") >> \o ImplementationStubs(Tail(rs))

\* Bounds of Spec: the lines of a file
MaxLines == 2

\* The lines of the grammar file: three rule definitions
GrammarLines ==
    {<<"a", ":", NL>>, <<"a", "B", ":", NL>>, <<"a", "b", ":", NL>>}

HeaderLines ==
    {[matches |-> TRUE, method |-> <<"a">>],
     [matches |-> TRUE, method |-> <<"a", "_", "b">>],
     [matches |-> FALSE, method |-> <<>>]}

SourceLines ==
    {[matches |-> TRUE, method |-> <<"a">>],
     [matches |-> TRUE, method |-> <<"a", "b">>],
     [matches |-> FALSE, method |-> <<>>]}

\* All sequences of at most n elements of S
RECURSIVE SeqsUpTo(_, _)
SeqsUpTo(S, n) ==
    IF n = 0 THEN {<<>>}
    ELSE LET shorter == SeqsUpTo(S, n - 1)
         IN shorter \cup {Append(t, x) : t \in shorter, x \in S}

Init ==
    /\ pc = "open_grammar"
    /\ files \in [Paths -> OpenOutcomes]
    /\ grammar_content = <<>>
    /\ stripped = <<>>
    /\ tokens = {}
    /\ rules = {}
    /\ header_content = <<>>
    /\ source_content = <<>>
    /\ declared_methods = {}
    /\ implemented_methods = {}
    /\ missing_declarations = {}
    /\ missing_implementations = {}
    /\ opened = <<>>
    /\ out = <<>>
    /\ NoCase

\* lines 60-65: open and read the grammar; FileNotFoundError is caught,
\* reported and ends the run, any other error of open() is not caught.
OpenGrammar ==
    /\ pc = "open_grammar"
    /\ opened' = Append(opened, GrammarPath)
    /\ \/ /\ files[GrammarPath] = "readable"
          /\ grammar_content' \in Texts(GrammarLines, MaxLines)
          /\ pc' = "parse_grammar"
          /\ out' = out
       \/ /\ files[GrammarPath] = "missing"
          /\ out' = Append(out, Plain("error_grammar_not_found"))
          /\ pc' = "done"
          /\ grammar_content' = grammar_content
       \/ /\ files[GrammarPath] = "unreadable"
          /\ pc' = "crashed"
          /\ UNCHANGED <<out, grammar_content>>
    /\ UNCHANGED <<files, stripped, tokens, rules, header_content,
                   source_content, declared_methods, implemented_methods,
                   missing_declarations, missing_implementations, caseVars>>

\* line 67: grammar_tokens, grammar_rules = parse_grammar(grammar_content)
ParseGrammar ==
    /\ pc = "parse_grammar"
    /\ stripped' = RemoveComments(grammar_content)
    /\ rules' = RulesOf(stripped')
    /\ tokens' = TokensOf(stripped')
    /\ pc' = "open_header"
    /\ UNCHANGED <<grammar_content, caseVars, driverVars>>

\* The header read with its errors swallowed
OpenHeaderSwallowingErrors ==
    /\ pc = "open_header"
    /\ opened' = Append(opened, HeaderPath)
    /\ \/ /\ files[HeaderPath] = "readable"
          /\ header_content' \in SeqsUpTo(HeaderLines, MaxLines)
       \/ /\ files[HeaderPath] # "readable"
          /\ header_content' = <<>>
    /\ declared_methods' = declared_methods \cup Range(FindAll(header_content'))
    /\ pc' = "open_source"
    /\ UNCHANGED <<files, source_content, implemented_methods,
                   missing_declarations, missing_implementations, out,
                   grammarVars, caseVars>>

\* lines 36-40: open and read the header, collect the declared methods; an
\* error of open() is caught nowhere.
OpenHeader ==
    /\ pc = "open_header"
    /\ opened' = Append(opened, HeaderPath)
    /\ \/ /\ files[HeaderPath] = "readable"
          /\ header_content' \in SeqsUpTo(HeaderLines, MaxLines)
          /\ declared_methods' =
                 declared_methods \cup Range(FindAll(header_content'))
          /\ pc' = "open_source"
       \/ /\ files[HeaderPath] # "readable"
          /\ pc' = "crashed"
          /\ UNCHANGED <<header_content, declared_methods>>
    /\ UNCHANGED <<files, source_content, implemented_methods,
                   missing_declarations, missing_implementations, out,
                   grammarVars, caseVars>>

\* lines 43-49: open and read the source, collect the implemented methods.
OpenSource ==
    /\ pc = "open_source"
    /\ opened' = Append(opened, SourcePath)
    /\ \/ /\ files[SourcePath] = "readable"
          /\ source_content' \in SeqsUpTo(SourceLines, MaxLines)
          /\ implemented_methods' =
                 implemented_methods \cup Range(FindAll(source_content'))
          /\ pc' = "difference"
       \/ /\ files[SourcePath] # "readable"
          /\ pc' = "crashed"
          /\ UNCHANGED <<source_content, implemented_methods>>
    /\ UNCHANGED <<files, header_content, declared_methods,
                   missing_declarations, missing_implementations, out,
                   grammarVars, caseVars>>

\* lines 71-72
Difference ==
    /\ pc = "difference"
    /\ missing_declarations' = MissingFrom(rules, declared_methods)
    /\ missing_implementations' = MissingFrom(rules, implemented_methods)
    /\ pc' = "check_sync"
    /\ UNCHANGED <<files, header_content, source_content, declared_methods,
                   implemented_methods, opened, out, grammarVars, caseVars>>

\* lines 74-76
ReportInSync ==
    /\ pc = "check_sync"
    /\ InSync(missing_declarations, missing_implementations)
    /\ out' = Append(out, Plain("in_sync"))
    /\ pc' = "done"
    /\ UNCHANGED <<files, header_content, source_content, declared_methods,
                   implemented_methods, missing_declarations,
                   missing_implementations, opened, grammarVars, caseVars>>

\* lines 78-80
PrintBanner ==
    /\ pc = "check_sync"
    /\ ~InSync(missing_declarations, missing_implementations)
    /\ out' = out \o <<Plain("analysis_complete"), Plain("suggestions"),
                       Plain("review")>>
    /\ pc' = "declarations"
    /\ UNCHANGED <<files, header_content, source_content, declared_methods,
                   implemented_methods, missing_declarations,
                   missing_implementations, opened, grammarVars, caseVars>>

\* lines 82-88
PrintDeclarations ==
    /\ pc = "declarations"
    /\ out' = IF missing_declarations # {}
              THEN out \o <<Plain("declarations_header")>>
                       \o DeclarationStubs(Sorted(missing_declarations))
                       \o <<Plain("blank")>>
              ELSE out
    /\ pc' = "implementations"
    /\ UNCHANGED <<files, header_content, source_content, declared_methods,
                   implemented_methods, missing_declarations,
                   missing_implementations, opened, grammarVars, caseVars>>

\* lines 90-99
PrintImplementations ==
    /\ pc = "implementations"
    /\ out' = IF missing_implementations # {}
              THEN out \o <<Plain("implementations_header")>>
                       \o ImplementationStubs(Sorted(missing_implementations))
              ELSE out
    /\ pc' = "done"
    /\ UNCHANGED <<files, header_content, source_content, declared_methods,
                   implemented_methods, missing_declarations,
                   missing_implementations, opened, grammarVars, caseVars>>

Next ==
    \/ OpenGrammar
    \/ ParseGrammar
    \/ OpenHeader
    \/ OpenSource
    \/ Difference
    \/ ReportInSync
    \/ PrintBanner
    \/ PrintDeclarations
    \/ PrintImplementations

Spec == Init /\ [][Next]_vars

(***************************************************************************)
(* Properties of main                                                      *)
(***************************************************************************)
AllFiles == <<GrammarPath, HeaderPath, SourcePath>>

\* The three files were read and the two differences taken.
Analyzed ==
    /\ pc \in {"check_sync", "declarations", "implementations", "done"}
    /\ opened = AllFiles

Kinds(ks) == SelectSeq(out, LAMBDA l : l.kind \in ks)

StubKinds == {"declaration_stub", "implementation_stub"}

\* The lines of a report: everything main prints but the error line.
ReportKinds ==
    {"in_sync", "analysis_complete", "suggestions", "review",
     "declarations_header", "declaration_stub", "blank",
     "implementations_header", "implementation_stub", "todo",
     "return_nullptr", "closing_brace"}

\* C2: missing_declarations is exactly R minus D and missing_implementations
\* exactly R minus I: both are subsets of R, neither holds a name of D (of I),
\* every rule outside D (I) is in it, and a method that is no rule is in
\* neither.
SetDifferenceCorrect ==
    Analyzed =>
        /\ missing_declarations \subseteq rules
        /\ missing_implementations \subseteq rules
        /\ \A n \in declared_methods : n \notin missing_declarations
        /\ \A n \in implemented_methods : n \notin missing_implementations
        /\ \A r \in rules : r \notin declared_methods => r \in missing_declarations
        /\ \A r \in rules :
              r \notin implemented_methods => r \in missing_implementations
        /\ \A n \in (declared_methods \cup implemented_methods) \ rules :
              n \notin missing_declarations \cup missing_implementations

\* C2 witness: the two differences are not empty and differ, a declared
\* method is a rule and another declared method is none.
DifferenceOfOverlappingSets ==
    /\ Analyzed
    /\ missing_declarations # {}
    /\ missing_implementations # {}
    /\ missing_declarations # missing_implementations
    /\ declared_methods \cap rules # {}
    /\ declared_methods \ rules # {}

\* C3 (as claimed): whenever the grammar file cannot be opened, whatever the
\* reason, the run ends having printed the one error line and nothing else.
GrammarFailureReported ==
    (pc \in {"done", "crashed"} /\ files[GrammarPath] # "readable") =>
        /\ pc = "done"
        /\ out = <<Plain("error_grammar_not_found")>>

\* C6: at the end of a run the declaration stubs are, in ascending order of
\* rule name, one for each missing declaration; the implementation stub
\* blocks are, in ascending order, one for each missing implementation; and
\* every declaration stub precedes every implementation stub.
SortedReport ==
    pc = "done" =>
        LET decl == Kinds({"declaration_stub"})
            impl == Kinds({"implementation_stub"})
        IN /\ {decl[k].rule : k \in DOMAIN decl} = missing_declarations
           /\ Len(decl) = Cardinality(missing_declarations)
           /\ \A k \in 1..(Len(decl) - 1) : LexLess(decl[k].rule, decl[k + 1].rule)
           /\ {impl[k].rule : k \in DOMAIN impl} = missing_implementations
           /\ Len(impl) = Cardinality(missing_implementations)
           /\ \A k \in 1..(Len(impl) - 1) : LexLess(impl[k].rule, impl[k + 1].rule)
           /\ \A i, j \in DOMAIN out :
                 (out[i].kind = "declaration_stub"
                    /\ out[j].kind = "implementation_stub") => i < j
           /\ \A i \in DOMAIN out :
                 out[i].kind = "implementation_stub" =>
                     /\ i + 3 <= Len(out)
                     /\ out[i + 1] = Line("todo", <<>>, out[i].rule)
                     /\ out[i + 2] = Plain("return_nullptr")
                     /\ out[i + 3] = Plain("closing_brace")
           /\ Len(Kinds({"todo"})) = Len(impl)

\* C6 witness: a report with two declaration stubs and two implementation
\* stubs.
ReportOfTwoAndTwo ==
    /\ pc = "done"
    /\ Len(Kinds({"declaration_stub"})) >= 2
    /\ Len(Kinds({"implementation_stub"})) >= 2

\* C9: the in-sync message is printed iff every rule is declared and
\* implemented; it is then the whole output of the run, and every other
\* run that read its three files prints no in-sync message and at least one
\* stub.
InSyncTerminal ==
    LET covered == rules \subseteq declared_methods
                     /\ rules \subseteq implemented_methods
    IN /\ Kinds({"in_sync"}) # <<>> =>
              /\ pc = "done"
              /\ out = <<Plain("in_sync")>>
              /\ opened = AllFiles
              /\ covered
       /\ (pc = "done" /\ opened = AllFiles) =>
              IF covered THEN out = <<Plain("in_sync")>>
              ELSE Kinds({"in_sync"}) = <<>> /\ Kinds(StubKinds) # <<>>

\* C9 witness: a run whose grammar has rules ended in sync.
InSyncWithRules ==
    /\ pc = "done"
    /\ rules # {}
    /\ out = <<Plain("in_sync")>>

\* C10: no line of the report is printed before the grammar, the header and
\* the source have been read, in that order; a run that fails to open the
\* header or the source has printed nothing; the header and the source are
\* not opened when the grammar file was not found.
NoPartialOutput ==
    /\ \E k \in 0..3 : opened = SubSeq(AllFiles, 1, k)
    /\ Kinds(ReportKinds) # <<>> =>
          /\ Analyzed
          /\ \A p \in Paths : files[p] = "readable"
    /\ pc = "crashed" => out = <<>>
    /\ files[GrammarPath] = "missing" => Len(opened) <= 1

\* C10 witness: the source could not be opened after the grammar and the
\* header were read.
CrashedOnSource ==
    /\ pc = "crashed"
    /\ opened = AllFiles
    /\ rules # {}
    /\ declared_methods # {}

====
